---------------------------- MODULE Spec2Model ----------------------------
(***************************************************************************)
(* Model of the checked_int_cast crate (src/src/lib.rs): the trait         *)
(* CheckedIntCast, implemented for the ten primitive integer kinds by the  *)
(* three macros impl_signed_as_unsigned, impl_signed_as_signed and         *)
(* impl_unsigned_as_any.                                                   *)
(*                                                                         *)
(* Machine integers are two's-complement bit patterns: sequences of 0/1,   *)
(* most significant bit first, as long as the kind is wide.  Mathematical  *)
(* integers (used only to state properties) are sign/magnitude records     *)
(* [neg, mag] whose magnitude is a bit sequence without leading zeros, so  *)
(* that 64-bit quantities never pass through a bounded machine integer.    *)
(***************************************************************************)
EXTENDS Integers, Sequences, FiniteSets, TLC

VARIABLES ptrWidth, from, to, self, pc, result, maxBound, minBound

vars == <<ptrWidth, from, to, self, pc, result, maxBound, minBound>>

---------------------------------------------------------------------------
(* The integer kinds *)

SignedKinds == {"isize", "i8", "i16", "i32", "i64"}

UnsignedKinds == {"usize", "u8", "u16", "u32", "u64"}

Kinds == SignedKinds \cup UnsignedKinds

\* Widths a pointer-sized integer can have on a supported target.
PtrWidths == {16, 32, 64}

Signed(k) == k \in SignedKinds

\* Variant of Bits: pointer-sized kinds taken to be 64 bits on every target.
BitsAssuming64(k, w) ==
    CASE k \in {"i8", "u8"} -> 8
      [] k \in {"i16", "u16"} -> 16
      [] k \in {"i32", "u32"} -> 32
      [] k \in {"i64", "u64", "isize", "usize"} -> 64

\* Number of bits of kind k when pointers are w bits wide.
Bits(k, w) ==
    CASE k \in {"i8", "u8"} -> 8
      [] k \in {"i16", "u16"} -> 16
      [] k \in {"i32", "u32"} -> 32
      [] k \in {"i64", "u64"} -> 64
      [] k \in {"isize", "usize"} -> w

Zeros(n) == [i \in 1..n |-> 0]

Ones(n) == [i \in 1..n |-> 1]

\* $k::MAX as a bit pattern of kind k.
MAX(k, w) ==
    IF Signed(k) THEN <<0>> \o Ones(Bits(k, w) - 1) ELSE Ones(Bits(k, w))

\* $k::MIN as a bit pattern of kind k.
MIN(k, w) ==
    IF Signed(k) THEN <<1>> \o Zeros(Bits(k, w) - 1) ELSE Zeros(Bits(k, w))

---------------------------------------------------------------------------
(* Arithmetic on bit sequences *)

\* Unsigned order of two bit patterns of the same length.
ULt(a, b) ==
    \E i \in 1..Len(a) :
        /\ a[i] < b[i]
        /\ \A j \in 1..(i - 1) : a[j] = b[j]

\* A bit sequence without its leading zeros.
Strip(b) ==
    LET nz == {i \in 1..Len(b) : b[i] = 1}
    IN  IF nz = {} THEN <<>>
        ELSE SubSeq(b, CHOOSE i \in nz : \A j \in nz : i <= j, Len(b))

\* b + 1 modulo 2^Len(b).
Inc(b) ==
    LET z == {i \in 1..Len(b) : b[i] = 0}
    IN  IF z = {} THEN Zeros(Len(b))
        ELSE LET k == CHOOSE i \in z : \A j \in z : j <= i
             IN  [i \in 1..Len(b) |-> IF i < k THEN b[i] ELSE IF i = k THEN 1 ELSE 0]

\* Two's-complement negation modulo 2^Len(b).
Negate(b) == Inc([i \in 1..Len(b) |-> 1 - b[i]])

---------------------------------------------------------------------------
(* Mathematical integers: [neg, mag], mag a bit sequence without leading   *)
(* zeros (most significant first), zero being [neg |-> FALSE, mag |-> <<>>] *)

MagLt(a, b) == Len(a) < Len(b) \/ (Len(a) = Len(b) /\ ULt(a, b))

IntLe(x, y) ==
    IF x.neg # y.neg THEN x.neg
    ELSE IF x.neg THEN ~MagLt(x.mag, y.mag) ELSE ~MagLt(y.mag, x.mag)

IntLt(x, y) == IntLe(x, y) /\ x # y

Pos(m) == [neg |-> FALSE, mag |-> m]

Neg(m) == [neg |-> m # <<>>, mag |-> m]

Zero == Pos(<<>>)

\* 2^n as a magnitude.
Pow2(n) == <<1>> \o Zeros(n)

MagInc(m) == Strip(Inc(<<0>> \o m))

\* m - 1 for m > 0.
MagDec(m) ==
    LET o == {i \in 1..Len(m) : m[i] = 1}
        k == CHOOSE i \in o : \A j \in o : j <= i
    IN  Strip([i \in 1..Len(m) |-> IF i < k THEN m[i] ELSE IF i = k THEN 0 ELSE 1])

\* m + d for an integer d with m + d >= 0.
RECURSIVE MagShift(_, _)
MagShift(m, d) ==
    IF d = 0 THEN m
    ELSE IF d > 0 THEN MagShift(MagInc(m), d - 1)
    ELSE MagShift(MagDec(m), d + 1)

\* The magnitude of a natural number.
RECURSIVE NatToMag(_)
NatToMag(n) == IF n = 0 THEN <<>> ELSE NatToMag(n \div 2) \o <<n % 2>>

\* The mathematical integer n.
IntOf(n) == IF n < 0 THEN Neg(NatToMag(-n)) ELSE Pos(NatToMag(n))

\* Smallest and largest integer of kind k: -2^(n-1) and 2^(n-1)-1 for a
\* signed kind of n bits, 0 and 2^n-1 for an unsigned one.
KindMin(k, w) == IF Signed(k) THEN Neg(Pow2(Bits(k, w) - 1)) ELSE Zero

KindMax(k, w) ==
    IF Signed(k) THEN Pos(MagDec(Pow2(Bits(k, w) - 1)))
    ELSE Pos(MagDec(Pow2(Bits(k, w))))

InRange(x, k, w) == IntLe(KindMin(k, w), x) /\ IntLe(x, KindMax(k, w))

\* The integer that bit pattern b denotes in kind k.
Value(b, k) ==
    IF Signed(k) /\ b[1] = 1 THEN Neg(Strip(Negate(b))) ELSE Pos(Strip(b))

\* The bit pattern of kind k denoting x, for x in the range of k.
Encode(x, k, w) ==
    LET padded == Zeros(Bits(k, w) - Len(x.mag)) \o x.mag
    IN  IF x.neg THEN Negate(padded) ELSE padded

---------------------------------------------------------------------------
(* Machine operations used by the macros *)

\* `a > b` evaluated in kind k (both operands are bit patterns of kind k).
Gt(a, b, k) ==
    IF Signed(k) /\ a[1] # b[1] THEN a[1] = 0 ELSE ULt(b, a)

\* `a < b` evaluated in kind k.
Lt(a, b, k) == Gt(b, a, k)

\* `x < 0` for x of a signed kind.
IsNegative(x) == x[1] = 1

\* Variant of Cast: a value that does not fit saturates at the bound of
\* the destination kind instead of wrapping.
CastSaturating(x, s, d, w) ==
    LET v == Value(x, s)
    IN  IF InRange(v, d, w) THEN Encode(v, d, w)
        ELSE IF v.neg THEN MIN(d, w) ELSE MAX(d, w)

\* Variant of Cast: widening always zero-extends.
CastZeroExtend(x, s, d, w) ==
    LET n == Bits(s, w)
        m == Bits(d, w)
    IN  IF m <= n THEN SubSeq(x, n - m + 1, n)
        ELSE Zeros(m - n) \o x

\* `x as $d` for x of kind s: truncation to the low bits when d is not
\* wider, sign extension (signed s) or zero extension (unsigned s) otherwise.
Cast(x, s, d, w) ==
    LET n == Bits(s, w)
        m == Bits(d, w)
        fill == IF Signed(s) THEN x[1] ELSE 0
    IN  IF m <= n THEN SubSeq(x, n - m + 1, n)
        ELSE [i \in 1..(m - n) |-> fill] \o x

---------------------------------------------------------------------------
(* `as f64`: conversion of an integer to IEEE-754 double precision *)

\* Number of significand bits of an f64 (including the implicit one).
MANTISSA_DIGITS == 53

\* The non-negative integer with significant bits m (no leading zero),
\* rounded to the nearest f64, ties to even.  An f64 is a record
\* [neg, exp, mant]: value (-1)^neg * 1.mant[2..53] * 2^exp, zero having an
\* all-zero mant.
RoundToF64(m) ==
    LET p == MANTISSA_DIGITS
        n == Len(m)
    IN  IF n = 0 THEN [exp |-> 0, mant |-> Zeros(p)]
        ELSE IF n <= p THEN [exp |-> n - 1, mant |-> m \o Zeros(p - n)]
        ELSE LET top == SubSeq(m, 1, p)
                 guard == m[p + 1]
                 sticky == \E i \in (p + 2)..n : m[i] = 1
                 up == guard = 1 /\ (sticky \/ top[p] = 1)
             IN  IF ~up THEN [exp |-> n - 1, mant |-> top]
                 ELSE IF top = Ones(p)
                      THEN [exp |-> n, mant |-> <<1>> \o Zeros(p - 1)]
                      ELSE [exp |-> n - 1, mant |-> Inc(top)]

\* `x as f64` for x of kind k.
as_f64(x, k) ==
    LET isNeg == Signed(k) /\ x[1] = 1
        r == RoundToF64(Strip(IF isNeg THEN Negate(x) ELSE x))
    IN  [neg |-> isNeg, exp |-> r.exp, mant |-> r.mant]

\* Order of the magnitudes of two f64 values obtained from integers.
F64MagLt(a, b) ==
    \/ a.exp < b.exp
    \/ a.exp = b.exp /\ ULt(a.mant, b.mant)

\* `a > b` on f64 values.
F64Gt(a, b) ==
    IF a.neg # b.neg THEN b.neg /\ (a.mant # Zeros(MANTISSA_DIGITS) \/ b.mant # Zeros(MANTISSA_DIGITS))
    ELSE IF a.neg THEN F64MagLt(a, b) ELSE F64MagLt(b, a)

\* Variant of RangeGuard: the maxima compared as i64 instead of f64.
RangeGuardViaI64(s, d, w) ==
    Gt(Cast(MAX(s, w), s, "i64", w), Cast(MAX(d, w), d, "i64", w), "i64")

\* Variant of RangeGuard: the guard dropped, the bounds always compared.
RangeGuardAlways(s, d, w) == TRUE

\* Variant of RangeGuard: the operands of the comparison swapped.
RangeGuardSwapped(s, d, w) == F64Gt(as_f64(MAX(d, w), d), as_f64(MAX(s, w), s))

\* The guard `$from::MAX as f64 > $to::MAX as f64` of the three macros.
RangeGuard(s, d, w) == F64Gt(as_f64(MAX(s, w), s), as_f64(MAX(d, w), d))

---------------------------------------------------------------------------
(* Option<$to> *)

None == [some |-> FALSE, val |-> <<>>]

Some(x) == [some |-> TRUE, val |-> x]

\* Value of a local that the call did not evaluate.
NotEvaluated == <<>>

---------------------------------------------------------------------------
(* The bodies of the three macros; x is self, s is $from, d is $to.  Each  *)
(* yields the returned Option together with the bounds `$to::MAX as $from` *)
(* and `$to::MIN as $from` that the call evaluated on its way.             *)

Outcome(r, hi, lo) == [ret |-> r, maxBound |-> hi, minBound |-> lo]

\* The body of impl_signed_as_unsigned, g being the value of its guard
\* `$from::MAX as f64 > $to::MAX as f64`.
signed_as_unsigned_body(g, x, s, d, w) ==
    LET hi == Cast(MAX(d, w), d, s, w)
    IN  IF IsNegative(x) THEN Outcome(None, NotEvaluated, NotEvaluated)
        ELSE IF g
             THEN IF Gt(x, hi, s) THEN Outcome(None, hi, NotEvaluated)
                  ELSE Outcome(Some(Cast(x, s, d, w)), hi, NotEvaluated)
             ELSE Outcome(Some(Cast(x, s, d, w)), NotEvaluated, NotEvaluated)

\* The body of impl_signed_as_signed.
signed_as_signed_body(g, x, s, d, w) ==
    LET hi == Cast(MAX(d, w), d, s, w)
        lo == Cast(MIN(d, w), d, s, w)
    IN  IF g
        THEN IF Gt(x, hi, s) THEN Outcome(None, hi, NotEvaluated)
             ELSE IF Lt(x, lo, s) THEN Outcome(None, hi, lo)
             ELSE Outcome(Some(Cast(x, s, d, w)), hi, lo)
        ELSE Outcome(Some(Cast(x, s, d, w)), NotEvaluated, NotEvaluated)

\* The body of impl_unsigned_as_any.
unsigned_as_any_body(g, x, s, d, w) ==
    LET hi == Cast(MAX(d, w), d, s, w)
    IN  IF g
        THEN IF Gt(x, hi, s) THEN Outcome(None, hi, NotEvaluated)
             ELSE Outcome(Some(Cast(x, s, d, w)), hi, NotEvaluated)
        ELSE Outcome(Some(Cast(x, s, d, w)), NotEvaluated, NotEvaluated)

\* Variant of signed_as_unsigned without the test `self < 0`.
signed_as_unsigned_no_sign_test(x, s, d, w) ==
    unsigned_as_any_body(RangeGuard(s, d, w), x, s, d, w)

signed_as_unsigned(x, s, d, w) ==
    signed_as_unsigned_body(RangeGuard(s, d, w), x, s, d, w)

\* Variant of signed_as_signed without the comparison against $to::MIN.
signed_as_signed_no_min(x, s, d, w) ==
    unsigned_as_any_body(RangeGuard(s, d, w), x, s, d, w)

signed_as_signed(x, s, d, w) ==
    signed_as_signed_body(RangeGuard(s, d, w), x, s, d, w)

\* Variant of unsigned_as_any comparing with `>=` instead of `>`.
unsigned_as_any_ge(x, s, d, w) ==
    LET hi == Cast(MAX(d, w), d, s, w)
    IN  IF RangeGuard(s, d, w) /\ ~Lt(x, hi, s) THEN Outcome(None, hi, NotEvaluated)
        ELSE unsigned_as_any_body(RangeGuard(s, d, w), x, s, d, w)

unsigned_as_any(x, s, d, w) ==
    unsigned_as_any_body(RangeGuard(s, d, w), x, s, d, w)

---------------------------------------------------------------------------
(* Which macro implements as_<d>_checked for a source kind *)

\* impl CheckedIntCast for a signed $from: the macro behind as_<d>_checked.
impl_signed_to_all(d) ==
    CASE d \in {"isize", "i8", "i16", "i32", "i64"} -> "signed_as_signed"
      [] d \in {"usize", "u8", "u16", "u32", "u64"} -> "signed_as_unsigned"
      [] OTHER -> "unimplemented"

\* Variant of impl_unsigned_to_all lacking as_usize_checked.
impl_unsigned_to_all_no_usize(d) ==
    CASE d \in {"isize", "i8", "i16", "i32", "i64",
                "u8", "u16", "u32", "u64"} -> "unsigned_as_any"
      [] OTHER -> "unimplemented"

\* impl CheckedIntCast for an unsigned $from.
impl_unsigned_to_all(d) ==
    CASE d \in {"isize", "i8", "i16", "i32", "i64",
                "usize", "u8", "u16", "u32", "u64"} -> "unsigned_as_any"
      [] OTHER -> "unimplemented"

\* The macro instantiated for the method as_<d>_checked of kind s.
Impl(s, d) ==
    CASE s \in {"isize", "i8", "i16", "i32", "i64"} -> impl_signed_to_all(d)
      [] s \in {"usize", "u8", "u16", "u32", "u64"} -> impl_unsigned_to_all(d)
      [] OTHER -> "unimplemented"

---------------------------------------------------------------------------
(* Inputs: every value of the source kind within MaxDelta of a power of    *)
(* two that bounds some kind, the small values, and the values used by the *)
(* crate's tests and documentation.                                        *)

MaxDelta == 2

Edges == UNION {{Bits(k, w), Bits(k, w) - 1} : k \in Kinds, w \in PtrWidths}

Literals == {0, 1, 4, 40, 127, 255, 256, 321, 3053, 40000000}

\* 2u64 << 33
DocShifted == Pow2(34)

Magnitudes ==
    {MagShift(Pow2(e), d) : e \in Edges, d \in (-MaxDelta)..MaxDelta}
        \cup {NatToMag(n) : n \in Literals \cup 0..MaxDelta}
        \cup {DocShifted}

Probes == {Pos(m) : m \in Magnitudes} \cup {Neg(m) : m \in Magnitudes}

Inputs(k, w) == {Encode(x, k, w) : x \in {p \in Probes : InRange(p, k, w)}}

\* The inputs of every kind on every target, computed once.
InputsOf == [w \in PtrWidths |-> [k \in Kinds |-> Inputs(k, w)]]

---------------------------------------------------------------------------
(* The state machine: one call v.as_<to>_checked() for v of kind from *)

Init ==
    /\ ptrWidth \in PtrWidths
    /\ from \in Kinds
    /\ to \in Kinds
    /\ self \in InputsOf[ptrWidth][from]
    /\ pc = "call"
    /\ result = None
    /\ maxBound = NotEvaluated
    /\ minBound = NotEvaluated

Return(o) ==
    /\ pc' = "done"
    /\ result' = o.ret
    /\ maxBound' = o.maxBound
    /\ minBound' = o.minBound
    /\ UNCHANGED <<ptrWidth, from, to, self>>

impl_signed_as_unsigned ==
    /\ pc = "call"
    /\ Impl(from, to) = "signed_as_unsigned"
    /\ Return(signed_as_unsigned(self, from, to, ptrWidth))

impl_signed_as_signed ==
    /\ pc = "call"
    /\ Impl(from, to) = "signed_as_signed"
    /\ Return(signed_as_signed(self, from, to, ptrWidth))

impl_unsigned_as_any ==
    /\ pc = "call"
    /\ Impl(from, to) = "unsigned_as_any"
    /\ Return(unsigned_as_any(self, from, to, ptrWidth))

Next ==
    \/ impl_signed_as_unsigned
    \/ impl_signed_as_signed
    \/ impl_unsigned_as_any

Spec == Init /\ [][Next]_vars

TypeOK ==
    /\ ptrWidth \in PtrWidths
    /\ from \in Kinds /\ to \in Kinds
    /\ Len(self) = Bits(from, ptrWidth)
    /\ pc \in {"call", "done"}

---------------------------------------------------------------------------
(* Properties *)

Done == pc = "done"

\* The mathematical value of the receiver.
V == Value(self, from)

\* The call returned Some of a value of kind `to` equal to the receiver.
ExactSome ==
    /\ result.some
    /\ Len(result.val) = Bits(to, ptrWidth)
    /\ Value(result.val, to) = V

\* as_<d>_checked of x of kind s, through the macro that implements it.
Convert(x, s, d, w) ==
    CASE Impl(s, d) = "signed_as_signed" -> signed_as_signed(x, s, d, w).ret
      [] Impl(s, d) = "signed_as_unsigned" -> signed_as_unsigned(x, s, d, w).ret
      [] Impl(s, d) = "unsigned_as_any" -> unsigned_as_any(x, s, d, w).ret

\* The three macros with the guard removed: the bounds always compared.
Unguarded(x, s, d, w) ==
    CASE Impl(s, d) = "signed_as_signed" -> signed_as_signed_body(TRUE, x, s, d, w).ret
      [] Impl(s, d) = "signed_as_unsigned" -> signed_as_unsigned_body(TRUE, x, s, d, w).ret
      [] Impl(s, d) = "unsigned_as_any" -> unsigned_as_any_body(TRUE, x, s, d, w).ret

\* The fixed-width kind a pointer-sized kind coincides with.
FixedKind(k, w) ==
    CASE k = "usize" /\ w = 16 -> "u16"
      [] k = "usize" /\ w = 32 -> "u32"
      [] k = "usize" /\ w = 64 -> "u64"
      [] k = "isize" /\ w = 16 -> "i16"
      [] k = "isize" /\ w = 32 -> "i32"
      [] k = "isize" /\ w = 64 -> "i64"
      [] OTHER -> k

\* C1: a finished conversion returns Some(d) with d equal to the receiver
\* as an integer exactly when the receiver lies in [to.min, to.max], and
\* None otherwise.
C1_ExactIffInRange ==
    Done => IF InRange(V, to, ptrWidth) THEN ExactSome ELSE result = None

C1_Witness ==
    /\ Done /\ from = "u64" /\ to = "i32"
    /\ V = IntOf(40000000)
    /\ result = Some(Encode(IntOf(40000000), "i32", ptrWidth))

\* C2: a negative receiver of a signed kind converted to an unsigned kind
\* gives None, whatever the widths of the two kinds.
C2_NegativeToUnsignedIsNone ==
    Done /\ Signed(from) /\ ~Signed(to) /\ IntLt(V, Zero) => result = None

C2_Witness ==
    /\ Done /\ from = "i32" /\ to = "usize" /\ ptrWidth = 64
    /\ self = MIN("i32", ptrWidth)
    /\ result = None

\* C3: when the range of `from` is contained in the range of `to` the
\* conversion returns Some of the same integer; a kind converted to itself
\* returns Some(self).
C3_ContainedRangeIsSome ==
    Done =>
        /\ (IntLe(KindMin(to, ptrWidth), KindMin(from, ptrWidth))
              /\ IntLe(KindMax(from, ptrWidth), KindMax(to, ptrWidth))
            => ExactSome)
        /\ (from = to => result = Some(self))

C3_Witness ==
    /\ Done /\ from = "i16" /\ to = "isize" /\ ptrWidth = 32
    /\ self = MIN("i16", ptrWidth)
    /\ ExactSome

\* Every call is served by exactly one macro, and a finished call holds
\* either None or Some of a bit pattern of kind `to`.
OneOfSomeOrNone ==
    /\ pc = "call" =>
          /\ Impl(from, to) # "unimplemented"
          /\ Cardinality({m \in {"signed_as_signed", "signed_as_unsigned", "unsigned_as_any"} :
                              Impl(from, to) = m}) = 1
    /\ Done =>
          \/ result = None
          \/ /\ result.some
             /\ Len(result.val) = Bits(to, ptrWidth)
             /\ \A i \in 1..Len(result.val) : result.val[i] \in {0, 1}

\* C4: every call, whatever the kinds and the receiver, is served by one
\* macro, which finishes in a single step with exactly one of None or Some
\* of a value of kind `to`.
C4_Total == []OneOfSomeOrNone /\ [][pc = "call" /\ pc' = "done"]_vars

C4_Witness ==
    /\ Done /\ from = "i64" /\ to = "usize" /\ ptrWidth = 16
    /\ self = MAX("i64", ptrWidth)
    /\ result = None

\* C5: with pointers of ptrWidth bits, as_usize_checked is Some exactly on
\* [0, 2^ptrWidth - 1], as_isize_checked exactly on
\* [-2^(ptrWidth-1), 2^(ptrWidth-1) - 1], a pointer-sized receiver converts as
\* the fixed-width kind of that width does, and (2u64 << 33) converts to
\* usize exactly when ptrWidth is 64.
C5_PointerWidth ==
    Done =>
        /\ (to = "usize" =>
              (result.some <=>
                  IntLe(Zero, V) /\ IntLe(V, Pos(MagDec(Pow2(ptrWidth))))))
        /\ (to = "isize" =>
              (result.some <=>
                  /\ IntLe(Neg(Pow2(ptrWidth - 1)), V)
                  /\ IntLe(V, Pos(MagDec(Pow2(ptrWidth - 1))))))
        /\ (result.some => Value(result.val, to) = V)
        /\ (from \in {"usize", "isize"} =>
              result = Convert(self, FixedKind(from, ptrWidth), to, ptrWidth))
        /\ (from = "u64" /\ to = "usize" /\ V = Pos(DocShifted) =>
              (result.some <=> ptrWidth = 64))

C5_Witness ==
    /\ Done /\ from = "u64" /\ to = "usize" /\ ptrWidth = 32
    /\ V = Pos(DocShifted)
    /\ result = None

\* C6: for an unsigned receiver the result is None exactly when the
\* receiver exceeds to.max, Some of the same integer otherwise, and always
\* Some when from.max <= to.max.
C6_UnsignedUpperBoundOnly ==
    Done /\ ~Signed(from) =>
        /\ (result = None <=> IntLt(KindMax(to, ptrWidth), V))
        /\ (result # None => ExactSome)
        /\ (IntLe(KindMax(from, ptrWidth), KindMax(to, ptrWidth)) => result.some)

C6_Witness ==
    /\ Done /\ from = "u8" /\ to = "i8"
    /\ V = IntOf(127)
    /\ result = Some(MAX("i8", ptrWidth))

\* C7: the guard computed on f64 roundings of the two maxima agrees with the
\* exact comparison from.max > to.max, although i64::MAX rounds to 2^63 and
\* u64::MAX to 2^64.
C7_GuardAgreesWithExactOrder ==
    /\ RangeGuard(from, to, ptrWidth)
          <=> IntLt(KindMax(to, ptrWidth), KindMax(from, ptrWidth))
    /\ as_f64(MAX("i64", ptrWidth), "i64") =
          [neg |-> FALSE, exp |-> 63, mant |-> <<1>> \o Zeros(MANTISSA_DIGITS - 1)]
    /\ as_f64(MAX("u64", ptrWidth), "u64") =
          [neg |-> FALSE, exp |-> 64, mant |-> <<1>> \o Zeros(MANTISSA_DIGITS - 1)]

C7_Witness ==
    /\ Done /\ from = "u64" /\ to = "isize" /\ ptrWidth = 64
    /\ RangeGuard(from, to, ptrWidth)
    /\ as_f64(MAX(from, ptrWidth), from).mant = as_f64(MAX(to, ptrWidth), to).mant
    /\ maxBound # NotEvaluated

\* C8: every bound a call evaluated is exact: `$to::MAX as $from` denotes
\* to.max and `$to::MIN as $from` denotes to.min in kind `from`, and a bound
\* is evaluated only when from.max > to.max.
C8_EvaluatedBoundsExact ==
    Done =>
        /\ (maxBound # NotEvaluated =>
              /\ Value(maxBound, from) = KindMax(to, ptrWidth)
              /\ IntLt(KindMax(to, ptrWidth), KindMax(from, ptrWidth)))
        /\ (minBound # NotEvaluated =>
              /\ Signed(from) /\ Signed(to)
              /\ Value(minBound, from) = KindMin(to, ptrWidth))

C8_Witness ==
    /\ Done /\ from = "i64" /\ to = "i8"
    /\ maxBound = Encode(IntOf(127), "i64", ptrWidth)
    /\ minBound = Encode(IntOf(-128), "i64", ptrWidth)
    /\ result.some

\* C9: when from.max <= to.max no bound is compared and none is needed:
\* every receiver that reaches the final cast (all of them, but the negative
\* ones for signed to unsigned) lies in [to.min, to.max] and the call returns
\* Some of the same integer; for two signed kinds from.max <= to.max implies
\* from.min >= to.min.
C9_SkippedComparisonNotNeeded ==
    /\ Done /\ maxBound = NotEvaluated
        /\ ~(Signed(from) /\ ~Signed(to) /\ IsNegative(self))
        => /\ IntLe(KindMax(from, ptrWidth), KindMax(to, ptrWidth))
           /\ InRange(V, to, ptrWidth)
           /\ ExactSome
    /\ Done /\ IntLe(KindMax(from, ptrWidth), KindMax(to, ptrWidth))
        => /\ maxBound = NotEvaluated /\ minBound = NotEvaluated
           /\ (Signed(from) /\ Signed(to) =>
                 IntLe(KindMin(to, ptrWidth), KindMin(from, ptrWidth)))

C9_Witness ==
    /\ Done /\ from = "i32" /\ to = "u64"
    /\ self = MAX("i32", ptrWidth)
    /\ maxBound = NotEvaluated
    /\ ExactSome

\* For a target and a pair of kinds: from.max <= to.max and the macro
\* without the guard returns None on some value of the source kind that lies
\* in the range of the destination.
UnguardedRejects ==
    [w \in PtrWidths |-> [s \in Kinds |-> [d \in Kinds |->
        /\ IntLe(KindMax(s, w), KindMax(d, w))
        /\ \E x \in InputsOf[w][s] :
              /\ InRange(Value(x, s), d, w)
              /\ Unguarded(x, s, d, w) = None]]]

\* C10: the guard cannot be removed: on every target there are a pair of
\* kinds with from.max <= to.max and a value of the source kind in the range
\* of the destination for which the macros without the guard return None.
C10_UnguardedRejectsInRange ==
    \E s \in Kinds, d \in Kinds : UnguardedRejects[ptrWidth][s][d]

C10_Witness ==
    /\ Done /\ from = "i8" /\ to = "i16"
    /\ IntLe(KindMax(from, ptrWidth), KindMax(to, ptrWidth))
    /\ V = IntOf(-40)
    /\ Unguarded(self, from, to, ptrWidth) = None
    /\ ExactSome

=============================================================================
